---- MODULE Spec2Model ----
(***************************************************************************)
(* Model of the scrape -> extract -> reconcile -> persist job of main.py   *)
(* (run_scraping_job) and of the row store it reads and writes.            *)
(*                                                                         *)
(* JSON values are records [t, n, s]: t is the Python type ("int", "str",  *)
(* "null"), n the number of an int, s the characters of a str (a sequence  *)
(* of one-character strings, so that str(), lower(), strip() and quote()   *)
(* are computed and not assumed).  A row or an extracted record is a       *)
(* function from the field names it carries to values: a missing key is a  *)
(* field outside its DOMAIN.                                               *)
(***************************************************************************)
EXTENDS Integers, Sequences, FiniteSets, TLC

\* ---------------------------------------------------------------- bounds
MaxRuns == 2
MaxBatch == 2
OverlapBatch == 1

Runs == 1..MaxRuns

\* ---------------------------------------------------------------- values
I(k) == [t |-> "int", n |-> k, s |-> <<>>]
S(chars) == [t |-> "str", n |-> 0, s |-> chars]
Null == [t |-> "null", n |-> 0, s |-> <<>>]

TBA == <<"T", "B", "A">>
ZeroStr == <<"0">>
EmptyStr == <<>>
DetailsPending == <<"D", "e", "t", "a", "i", "l", "s", " ", "p", "e", "n", "d", "i", "n", "g", ".">>

Digit(d) == <<"0", "1", "2", "3", "4", "5", "6", "7", "8", "9">>[d + 1]

RECURSIVE IntToStr(_)
IntToStr(k) == IF k < 10 THEN <<Digit(k)>> ELSE IntToStr(k \div 10) \o <<Digit(k % 10)>>

\* Python str(v)
Str(v) ==
    CASE v.t = "int" -> IntToStr(v.n)
      [] v.t = "str" -> v.s
      [] OTHER -> <<"N", "o", "n", "e">>

\* Python truthiness: None, 0 and "" are falsy
Truthy(v) ==
    CASE v.t = "int" -> v.n # 0
      [] v.t = "str" -> v.s # <<>>
      [] OTHER -> FALSE

LowerChar(c) ==
    CASE c = "A" -> "a"
      [] c = "B" -> "b"
      [] c = "N" -> "n"
      [] c = "T" -> "t"
      [] OTHER -> c

\* str.lower()
Lower(chars) == [i \in 1..Len(chars) |-> LowerChar(chars[i])]

RECURSIVE LStrip(_)
LStrip(chars) == IF chars # <<>> /\ Head(chars) = " " THEN LStrip(Tail(chars)) ELSE chars

RECURSIVE RStrip(_)
RStrip(chars) ==
    IF chars # <<>> /\ chars[Len(chars)] = " "
    THEN RStrip(SubSeq(chars, 1, Len(chars) - 1))
    ELSE chars

\* str.strip()
Strip(chars) == RStrip(LStrip(chars))

\* dict.get(f) and dict.get(f, default)
Get(rec, f) == IF f \in DOMAIN rec THEN rec[f] ELSE Null
GetD(rec, f, default) == IF f \in DOMAIN rec THEN rec[f] ELSE default

\* dict item assignment rec[f] = v
Put(rec, f, v) == [g \in (DOMAIN rec) \cup {f} |-> IF g = f THEN v ELSE rec[g]]

\* str(row.get('company_name', '')).lower().strip()
NameKey(rec) == Strip(Lower(Str(GetD(rec, "company_name", S(EmptyStr)))))

\* ------------------------------------------------- the loop body, lines 123-167
\* "Clean defaults before processing": a falsy or missing field gets its default
Default(rec, f, v) == IF Truthy(Get(rec, f)) THEN rec ELSE Put(rec, f, v)

\* (variant: the notes default left out)
ApplyDefaultsNoNotes(ipo) ==
    LET d1 == Default(ipo, "gmp", I(0))
        d2 == Default(d1, "price_band_high", I(0))
        d3 == Default(d2, "price_band_low", I(0))
        d4 == Default(d3, "lot_size", I(0))
    IN  Default(d4, "industry", S(TBA))

ApplyDefaults(ipo) ==
    LET d1 == Default(ipo, "gmp", I(0))
        d2 == Default(d1, "price_band_high", I(0))
        d3 == Default(d2, "price_band_low", I(0))
        d4 == Default(d3, "lot_size", I(0))
        d5 == Default(d4, "industry", S(TBA))
    IN  Default(d5, "notes", S(DetailsPending))

PricePlaceholders == {ZeroStr, TBA, EmptyStr}
DatePlaceholders == {TBA, EmptyStr}

\* "Check Price"
PriceUpdate(existing_row, ipo) ==
    LET old_price == Str(GetD(existing_row, "price_band_high", S(ZeroStr)))
        new_price == Str(GetD(ipo, "price_band_high", S(ZeroStr)))
    IN  old_price \in PricePlaceholders /\ new_price \notin PricePlaceholders

\* "Check Date"
DateUpdate(existing_row, ipo) ==
    LET old_date == Str(GetD(existing_row, "application_open", S(TBA)))
        new_date == Str(GetD(ipo, "application_open", S(TBA)))
    IN  old_date \in DatePlaceholders /\ new_date \notin DatePlaceholders

NeedsUpdate(existing_row, ipo) == PriceUpdate(existing_row, ipo) \/ DateUpdate(existing_row, ipo)

\* requests.utils.quote: a space becomes %20, letters and digits are kept
RECURSIVE Quote(_)
Quote(chars) ==
    IF chars = <<>> THEN <<>>
    ELSE (IF Head(chars) = " " THEN <<"%", "2", "0">> ELSE <<Head(chars)>>) \o Quote(Tail(chars))

\* the store's decoding of the path segment
RECURSIVE Unquote(_)
Unquote(chars) ==
    IF chars = <<>> THEN <<>>
    ELSE IF Len(chars) >= 3 /\ SubSeq(chars, 1, 3) = <<"%", "2", "0">>
         THEN <<" ">> \o Unquote(SubSeq(chars, 4, Len(chars)))
         ELSE <<Head(chars)>> \o Unquote(Tail(chars))

\* What one pass of the loop body does with one extracted record:
\*   "insert"    queued in rows_to_add and registered in existing_map
\*   "patch"     requests.patch is called with the whole record as body
\*   "patch_err" quote() raises on a company_name that is no string; caught at 166
\*   "crash"     ipo['company_name'] raises KeyError at line 159, outside the try
\*   "drop"      nothing
Outcome(raw, emap) ==
    LET ipo == ApplyDefaults(raw)
        name_key == NameKey(ipo)
    IN  IF name_key \notin DOMAIN emap THEN "insert"
        ELSE IF ~NeedsUpdate(emap[name_key], ipo) THEN "drop"
        ELSE IF "company_name" \notin DOMAIN ipo THEN "crash"
        ELSE IF ipo["company_name"].t # "str" THEN "patch_err"
        ELSE "patch"

\* (variant: the queued record is not registered in the lookup)
RegisterNothing(emap, name_key, ipo) == emap

\* existing_map[name_key] = ipo  # Prevent double adding
Register(emap, name_key, ipo) == Put(emap, name_key, ipo)

\* requests.patch(update_url, json=ipo): the body is the whole record
PatchBody(ipo) == ipo

\* the path segment of update_url, as the store decodes it
PatchTarget(ipo) == Unquote(Quote(Str(ipo["company_name"])))

\* The outcomes of the loop over a whole batch, in order (the loop ends at a crash)
RECURSIVE Outcomes(_, _)
Outcomes(batch, emap) ==
    IF batch = <<>> THEN <<>>
    ELSE LET what == Outcome(Head(batch), emap)
             ipo == ApplyDefaults(Head(batch))
             emap2 == IF what = "insert" THEN Register(emap, NameKey(ipo), ipo) ELSE emap
         IN  IF what = "crash" THEN <<what>> ELSE <<what>> \o Outcomes(Tail(batch), emap2)

\* existing_map = {key(row): row for row in current_data}: the last row of a key wins
LastIndex(data, k) == CHOOSE i \in DOMAIN data :
    /\ NameKey(data[i]) = k
    /\ \A j \in DOMAIN data : NameKey(data[j]) = k => j <= i

ExistingMap(data) == [k \in {NameKey(data[i]) : i \in DOMAIN data} |-> data[LastIndex(data, k)]]

\* ------------------------------------------------- the row store (Sheet.best)
\* PATCH <api>/company_name/<value>: every row whose company_name cell is <value>
\* takes the fields of the body
Merge(row, body) == [g \in (DOMAIN row) \cup (DOMAIN body) |-> IF g \in DOMAIN body THEN body[g] ELSE row[g]]

Matches(row, target) == "company_name" \in DOMAIN row /\ Str(row["company_name"]) = target

StorePatch(st, target, body) ==
    [i \in DOMAIN st |-> IF Matches(st[i], target) THEN Merge(st[i], body) ELSE st[i]]

\* (variant: a store that refuses a row whose key it already holds)
StorePostUniqueKeys(st, rows) ==
    st \o SelectSeq(rows, LAMBDA row : \A i \in DOMAIN st : NameKey(st[i]) # NameKey(row))

\* POST <api> with a list of rows appends them
StorePost(st, rows) == st \o rows

\* ------------------------------------------------- extracted records (inputs)
\* What ai_extract_ipos can return for one IPO: company_name, price_band_high
\* and application_open are missing or hold a value; the fields the loop only
\* copies (symbol, status, ipo_date, application_close, gmp) are always given;
\* price_band_low, lot_size, industry and notes are always missing.
Absent == [t |-> "absent", n |-> 0, s |-> <<>>]

Mk(name, price, date, gmp) ==
    LET all == [company_name |-> name, price_band_high |-> price,
                application_open |-> date, gmp |-> gmp,
                symbol |-> S(<<"A">>), status |-> S(<<"o", "p", "e", "n">>),
                ipo_date |-> S(TBA), application_close |-> S(TBA)]
    IN  [f \in {g \in DOMAIN all : all[g] # Absent} |-> all[f]]

NameChoices == {Absent, S(<<"A">>), S(<<"a", " ">>)}
PriceChoices == {Absent, I(100)}
DateChoices == {Absent, S(<<"2", "0", "2", "4">>)}
GmpChoices == {I(50)}

RawRecords == {Mk(nm, p, d, g) : nm \in NameChoices, p \in PriceChoices,
                                 d \in DateChoices, g \in GmpChoices}

\* The sheet before the first run of the model: empty, or one row an earlier
\* run inserted (a placeholder row, or a row with a real price and no date yet)
StoredRow(price, gmp) == ApplyDefaults(Mk(S(<<"A">>), price, S(TBA), gmp))

InitStores == {<<>>, <<StoredRow(Absent, Absent)>>, <<StoredRow(I(120), I(80))>>}

\* ------------------------------------------------- state
VARIABLES
    store,          \* the sheet: a sequence of rows
    pc,             \* where each run of run_scraping_job is
    new_ipos,       \* per run: the extracted records the loop has taken so far, as extracted
    current_data,   \* per run: what get_sheet_data returned
    existing_map,   \* per run: normalized key -> row
    rows_to_add,    \* per run: the rows queued for the batch insert
    outcome,        \* per run: what the last pass of the loop did
    applied,        \* per run: every store call so far succeeded, and every patch reached a row
    promoted        \* <<row index, field>> pairs a patch took from a placeholder to a real value

vars == <<store, pc, new_ipos, current_data, existing_map, rows_to_add, outcome, applied, promoted>>

NoRows == <<>>
NoMap == [k \in {} |-> Null]

Active(r) == pc[r] \in {"loop", "done"}

\* (claims' vocabulary) the placeholders of the data model: 0, "0", "" and
\* "TBA"; a field a row does not carry is unknown as well
PlaceholderValues == {I(0), S(ZeroStr), S(EmptyStr), S(TBA)}
IsPlaceholder(rec, f) == f \notin DOMAIN rec \/ rec[f] \in PlaceholderValues
IsReal(rec, f) == ~IsPlaceholder(rec, f)

Init ==
    /\ store \in InitStores
    /\ pc = [r \in Runs |-> "idle"]
    /\ new_ipos = [r \in Runs |-> <<>>]
    /\ current_data = [r \in Runs |-> NoRows]
    /\ existing_map = [r \in Runs |-> NoMap]
    /\ rows_to_add = [r \in Runs |-> NoRows]
    /\ outcome = [r \in Runs |-> "none"]
    /\ applied = [r \in Runs |-> TRUE]
    /\ promoted = {}

\* ------------------------------------------------- run_scraping_job, step by step
\* may_start is the scheduling of the specification: whether run r may begin now.
\* lines 109-113 with nothing scraped or nothing extracted: the job returns
StartEmpty(r, may_start) ==
    /\ may_start
    /\ pc[r] = "idle"
    /\ pc' = [pc EXCEPT ![r] = "returned"]
    /\ UNCHANGED <<store, new_ipos, current_data, existing_map, rows_to_add, outcome, applied, promoted>>

\* lines 109-121 with a non-empty batch extracted: get_sheet_data (lines 29-35)
\* reads the sheet, and a failed read yields []
Start(r, may_start) ==
    /\ may_start
    /\ pc[r] = "idle"
    /\ \E ok \in BOOLEAN :
        LET data == IF ok THEN store ELSE NoRows
        IN  /\ current_data' = [current_data EXCEPT ![r] = data]
            /\ existing_map' = [existing_map EXCEPT ![r] = ExistingMap(data)]
            /\ applied' = [applied EXCEPT ![r] = ok]
    /\ rows_to_add' = [rows_to_add EXCEPT ![r] = NoRows]
    /\ pc' = [pc EXCEPT ![r] = "loop"]
    /\ UNCHANGED <<store, new_ipos, outcome, promoted>>

\* the fields of the rows a patch takes from a placeholder to a real value
NewlyPromoted(st, st2) ==
    {<<i, f>> \in (DOMAIN st) \X {"price_band_high", "application_open", "gmp"} :
        IsPlaceholder(st[i], f) /\ IsReal(st2[i], f)}

\* one pass of the loop body, lines 123-167, on the next extracted record
ProcessIpo(r, Records, limit) ==
    /\ pc[r] = "loop"
    /\ Len(new_ipos[r]) < limit
    /\ \E raw \in Records, ok \in BOOLEAN :
        LET ipo == ApplyDefaults(raw)
            name_key == NameKey(ipo)
            what == Outcome(raw, existing_map[r])
            st2 == IF what = "patch" /\ ok
                   THEN StorePatch(store, PatchTarget(ipo), PatchBody(ipo))
                   ELSE store
        IN  /\ (what # "patch" => ok)
            /\ new_ipos' = [new_ipos EXCEPT ![r] = Append(@, raw)]
            /\ outcome' = [outcome EXCEPT ![r] = what]
            /\ rows_to_add' = [rows_to_add EXCEPT ![r] = IF what = "insert" THEN Append(@, ipo) ELSE @]
            /\ existing_map' = [existing_map EXCEPT ![r] = IF what = "insert" THEN Register(@, name_key, ipo) ELSE @]
            /\ store' = st2
            /\ promoted' = promoted \cup NewlyPromoted(store, st2)
            /\ applied' = [applied EXCEPT ![r] =
                    /\ @ /\ ok /\ what \notin {"patch_err", "crash"}
                    /\ what = "patch" => \E i \in DOMAIN store : Matches(store[i], PatchTarget(ipo))]
            /\ pc' = [pc EXCEPT ![r] = IF what = "crash" THEN "crashed" ELSE "loop"]
    /\ UNCHANGED current_data

\* lines 169-177: the batch insert after the loop
PostRows(r) ==
    /\ pc[r] = "loop"
    /\ new_ipos[r] # <<>>
    /\ \E ok \in BOOLEAN :
        /\ (rows_to_add[r] = NoRows => ok)
        /\ store' = IF ok THEN StorePost(store, rows_to_add[r]) ELSE store
        /\ applied' = [applied EXCEPT ![r] = @ /\ ok]
    /\ pc' = [pc EXCEPT ![r] = "done"]
    /\ UNCHANGED <<new_ipos, current_data, existing_map, rows_to_add, outcome, promoted>>

\* the function returns and its locals are gone
Return(r) ==
    /\ pc[r] = "done"
    /\ pc' = [pc EXCEPT ![r] = "returned"]
    /\ new_ipos' = [new_ipos EXCEPT ![r] = <<>>]
    /\ current_data' = [current_data EXCEPT ![r] = NoRows]
    /\ existing_map' = [existing_map EXCEPT ![r] = NoMap]
    /\ rows_to_add' = [rows_to_add EXCEPT ![r] = NoRows]
    /\ outcome' = [outcome EXCEPT ![r] = "none"]
    /\ applied' = [applied EXCEPT ![r] = TRUE]
    /\ UNCHANGED <<store, promoted>>

\* One run alone, from each sheet of InitStores: one reconcile pass over every
\* batch of at most MaxBatch records
PassNext ==
    \/ StartEmpty(1, TRUE)
    \/ Start(1, TRUE)
    \/ ProcessIpo(1, RawRecords, MaxBatch)
    \/ PostRows(1)
    \/ Return(1)

PassSpec == Init /\ [][PassNext]_vars

\* Runs are alike, so they are numbered in the order they begin
InOrder(r) == \A q \in Runs : q < r => pc[q] # "idle"

\* Runs that do not overlap: a run begins only while no other run is under way
Alone(r) == \A q \in Runs \ {r} : ~Active(q)

SeqNext ==
    \E r \in Runs :
        \/ StartEmpty(r, InOrder(r) /\ Alone(r))
        \/ Start(r, InOrder(r) /\ Alone(r))
        \/ ProcessIpo(r, RawRecords, MaxBatch)
        \/ PostRows(r)
        \/ Return(r)

SeqSpec == Init /\ [][SeqNext]_vars

\* /update_sheet and /report hand run_scraping_job to the thread pool with no
\* lock (lines 343-357): a run may begin at any time, and runs interleave at
\* their store calls.  The race is about keys, so the overlapping runs extract
\* named records with no price and no date, OverlapBatch of them at most.
OverlapRecords == {Mk(nm, Absent, Absent, I(50)) : nm \in NameChoices \ {Absent}}

Next ==
    \E r \in Runs :
        \/ StartEmpty(r, InOrder(r))
        \/ Start(r, InOrder(r))
        \/ ProcessIpo(r, OverlapRecords, OverlapBatch)
        \/ PostRows(r)
        \/ Return(r)

Spec == Init /\ [][Next]_vars

\* ------------------------------------------------- vocabulary of the claims
AllFields == {"company_name", "symbol", "ipo_date", "application_open", "application_close",
              "industry", "lot_size", "price_band_low", "price_band_high", "gmp", "status", "notes"}

PromotableFields == {"price_band_high", "price_band_low", "gmp", "lot_size", "ipo_date",
                     "application_open", "application_close", "industry"}

\* the documented placeholder of a field
DocumentedPlaceholder(f) ==
    CASE f \in {"ipo_date", "application_open", "application_close", "industry"} -> S(TBA)
      [] f \in {"lot_size", "price_band_low", "price_band_high", "gmp"} -> I(0)
      [] OTHER -> S(DetailsPending)

\* a raw value that is missing, null, empty or zero
RawUnset(raw, f) == f \notin DOMAIN raw \/ raw[f] \in {Null, I(0), S(EmptyStr)}

\* the reference promotion rule: the fields that are a placeholder in the existing
\* row and real in the new record
ReferencePromoted(existing_row, ipo) ==
    {f \in PromotableFields : IsPlaceholder(existing_row, f) /\ IsReal(ipo, f)}

\* the fields lines 125-130 give a default
DefaultedFields == {"gmp", "price_band_high", "price_band_low", "lot_size", "industry", "notes"}

Last(seq) == seq[Len(seq)]

\* lower-cased, trimmed company_name
KeyOf(rec) == NameKey(rec)

UniqueKeys(st) == \A i, j \in DOMAIN st : i # j => KeyOf(st[i]) # KeyOf(st[j])

\* the pass of the loop that has just ended in run r worked on a record whose key was in the lookup
Collided(r) == outcome[r] \in {"patch", "drop", "patch_err", "crash"}

\* ------------------------------------------------- C1
\* C1: a field of a stored row that holds a real value is never changed to a
\* different real value, whatever runs follow one another.
C1_NoRealOverwrite ==
    [][\A i \in DOMAIN store, f \in AllFields :
        (IsReal(store[i], f) /\ IsReal(store'[i], f)) => store'[i][f] = store[i][f]]_vars

\* ------------------------------------------------- C2
\* C2: a field that a patch promoted from a placeholder to a real value is not
\* set back to a placeholder by a later pass whose record carries the same
\* value or a placeholder for that field.
C2_NoRevert ==
    [][\A r \in Runs, i \in DOMAIN store, f \in PromotableFields :
        (/\ <<i, f>> \in promoted
         /\ IsReal(store[i], f)
         /\ new_ipos'[r] # new_ipos[r]
         /\ new_ipos'[r] # <<>>
         /\ LET ipo == ApplyDefaults(Last(new_ipos'[r]))
            IN  IsPlaceholder(ipo, f) \/ ipo[f] = store[i][f])
        => IsReal(store'[i], f)]_vars

\* ------------------------------------------------- C3
\* C3: when a run has ended with its inserts and patches applied to the sheet
\* (every store call successful, every patch applied to a row), reconciling the
\* same batch against the sheet as it now is yields no insert and no patch.
C3_Idempotent ==
    \A r \in Runs :
        (pc[r] = "done" /\ applied[r]) =>
            LET again == Outcomes(new_ipos[r], ExistingMap(store))
            IN  \A k \in DOMAIN again : again[k] \notin {"insert", "patch"}

\* ------------------------------------------------- C4
\* C4: for a record whose key is in the lookup, a patch is sent exactly when
\* one of the eight promotable fields is a placeholder in the existing row and
\* real in the new record, and the patch carries exactly those fields.
C4_ReferenceRule ==
    \A r \in Runs :
        Collided(r) =>
            LET ipo == ApplyDefaults(Last(new_ipos[r]))
                fields == ReferencePromoted(existing_map[r][KeyOf(ipo)], ipo)
            IN  /\ (outcome[r] = "patch") <=> (fields # {})
                /\ outcome[r] = "patch" => PatchBody(ipo) = [f \in fields |-> ipo[f]]

\* ------------------------------------------------- C5
\* C5: a record whose company_name is missing or normalizes to "" is never
\* queued for insertion and never patched, and the loop goes on after it.
C5_SkipsUnkeyed ==
    \A r \in Runs :
        /\ \A i \in DOMAIN rows_to_add[r] : KeyOf(rows_to_add[r][i]) # <<>>
        /\ (outcome[r] = "patch" => KeyOf(Last(new_ipos[r])) # <<>>)
        /\ pc[r] # "crashed"

\* ------------------------------------------------- C6
\* C6: no two rows queued for insertion in one pass share a normalized key, no
\* queued row has the key of a row that was read from the sheet, and a record
\* of the batch whose key was seen earlier in the batch is not queued: it is
\* compared against the first record of that key, which the lookup holds.
C6_NoDuplicateInsert ==
    \A r \in Runs :
        LET rows == rows_to_add[r]
        IN  /\ \A i, j \in DOMAIN rows : i # j => KeyOf(rows[i]) # KeyOf(rows[j])
            /\ \A i \in DOMAIN rows, k \in DOMAIN current_data[r] :
                    KeyOf(rows[i]) # KeyOf(current_data[r][k])
            /\ \A i \in DOMAIN rows :
                    /\ KeyOf(rows[i]) \in DOMAIN existing_map[r]
                    /\ existing_map[r][KeyOf(rows[i])] = rows[i]
            /\ \A j, k \in DOMAIN new_ipos[r] :
                    (j < k /\ k = Len(new_ipos[r]) /\ KeyOf(new_ipos[r][j]) = KeyOf(new_ipos[r][k]))
                        => outcome[r] # "insert"

\* two records of one batch, written differently, with one key: only the first is queued
C6_Witness ==
    \E r \in Runs :
        /\ Len(new_ipos[r]) = 2
        /\ current_data[r] = NoRows
        /\ Get(new_ipos[r][1], "company_name") = S(<<"A">>)
        /\ Get(new_ipos[r][2], "company_name") = S(<<"a", " ">>)
        /\ Len(rows_to_add[r]) = 1
        /\ KeyOf(rows_to_add[r][1]) = <<"a">>
        /\ Collided(r)

\* ------------------------------------------------- C7
\* C7: the sheet never holds two rows with one normalized key, whatever runs
\* follow one another, failed reads included.
C7_StoreKeysUnique == UniqueKeys(store)

\* ------------------------------------------------- C8
\* C8 as stated: every queued row carries all twelve fields, and a field whose
\* raw value was missing, null, empty or zero holds its documented placeholder.
C8_FullyNormalized ==
    \A r \in Runs :
        outcome[r] = "insert" =>
            LET raw == Last(new_ipos[r])
                row == Last(rows_to_add[r])
            IN  \A f \in AllFields :
                    /\ f \in DOMAIN row
                    /\ (RawUnset(raw, f) /\ f \notin {"company_name", "symbol", "status"})
                            => row[f] = DocumentedPlaceholder(f)

\* C8 as amended: every queued row carries gmp, price_band_high, price_band_low,
\* lot_size, industry and notes; each of them holds its documented placeholder
\* when its raw value was missing, null, empty or zero, and its raw value
\* otherwise; every other field is as extracted (missing when it was missing).
C8_DefaultsApplied ==
    \A r \in Runs :
        /\ \A i \in DOMAIN rows_to_add[r] : DefaultedFields \subseteq DOMAIN rows_to_add[r][i]
        /\ outcome[r] = "insert" =>
            LET raw == Last(new_ipos[r])
                row == Last(rows_to_add[r])
            IN  /\ DOMAIN row = (DOMAIN raw) \cup DefaultedFields
                /\ \A f \in DOMAIN row :
                    row[f] = IF f \in DefaultedFields /\ RawUnset(raw, f)
                             THEN DocumentedPlaceholder(f)
                             ELSE raw[f]

\* a record extracted without a price and without a date is queued: the price is 0, the date is still missing
C8_Witness ==
    \E r \in Runs :
        /\ outcome[r] = "insert"
        /\ "price_band_high" \notin DOMAIN Last(new_ipos[r])
        /\ "application_open" \notin DOMAIN Last(new_ipos[r])
        /\ Last(rows_to_add[r])["price_band_high"] = I(0)
        /\ Last(rows_to_add[r])["notes"] = S(DetailsPending)
        /\ "application_open" \notin DOMAIN Last(rows_to_add[r])

\* ------------------------------------------------- C9
\* C9: nothing keeps two runs apart: when two runs have both ended with every
\* store call successful and both had queued a row of one key, the sheet holds
\* two rows with that key.
C9_RaceDuplicates ==
    \A r1, r2 \in Runs :
        (/\ r1 # r2
         /\ pc[r1] = "done" /\ pc[r2] = "done"
         /\ applied[r1] /\ applied[r2]
         /\ \E i \in DOMAIN rows_to_add[r1], j \in DOMAIN rows_to_add[r2] :
                KeyOf(rows_to_add[r1][i]) = KeyOf(rows_to_add[r2][j]))
        => \E a, b \in DOMAIN store :
                /\ a # b
                /\ KeyOf(store[a]) = KeyOf(store[b])
                /\ \E i \in DOMAIN rows_to_add[r1] : KeyOf(rows_to_add[r1][i]) = KeyOf(store[a])

\* both runs read the sheet, which lacked the key, before either wrote; both inserted it
C9_Witness ==
    \E r1, r2 \in Runs :
        /\ r1 # r2
        /\ pc[r1] = "done" /\ pc[r2] = "done"
        /\ applied[r1] /\ applied[r2]
        /\ current_data[r1] = current_data[r2]
        /\ UniqueKeys(current_data[r1])
        /\ rows_to_add[r1] # NoRows /\ rows_to_add[r2] # NoRows
        /\ KeyOf(rows_to_add[r1][1]) = KeyOf(rows_to_add[r2][1])
        /\ ~UniqueKeys(store)

\* ------------------------------------------------- C10
\* C10: in a run alone, a patch is sent only for a key that a row of the sheet
\* has at that moment.
C10_PatchTargetsStoredRow ==
    [][\A r \in Runs :
        (new_ipos'[r] # new_ipos[r] /\ outcome'[r] = "patch")
            => \E i \in DOMAIN store : KeyOf(store[i]) = KeyOf(Last(new_ipos'[r]))]_vars

====
